---------------------------- MODULE Spec2Model ----------------------------
(***************************************************************************)
(* State-machine model of the MQTT-over-WebSocket client of src/index.js:  *)
(* the packet codec (buildPacket, ntob, bton, stolpb, stob), the callback  *)
(* registry with its identifier counter, the CONNECT/CONNACK handshake and *)
(* the inbound dispatch of _receivePacket.                                 *)
(*                                                                         *)
(* Bytes are naturals 0..255, byte buffers and strings are sequences of    *)
(* them (a string is the sequence of its char codes).  JavaScript's        *)
(* `undefined` read out of a buffer is the value Undefined.                *)
(*                                                                         *)
(* Besides the program's own state (ws, nextId, callbacks) the model keeps *)
(* the observable effects of the last step (sent, events, fired, threw,    *)
(* last), the program's state before that step (pre), and the list of the  *)
(* requests that registered a callback, with the number of times each      *)
(* one's completion has run (reqs).                                        *)
(* handshaken records that the handshake has had its outcome, and built    *)
(* follows one call of buildPacket through the header parsing of           *)
(* _receivePacket (specification SpecCodec).  SpecSubscribe runs subscribe *)
(* and SUBACK over more topic lists and return codes than Spec does.       *)
(***************************************************************************)
EXTENDS Integers, Sequences, FiniteSets, TLC

VARIABLES
  ws,         \* readyState of this._ws: "connecting", "open" or "closed"
  nextId,     \* this._nextId
  callbacks,  \* this._callbacks: registry key -> completion (request index, 0 = handshake)
  reqs,       \* requests that registered a callback: op, qos, key, topics, invoked
  sent,       \* buffers handed to ws.send during the last step, in order
  events,     \* events emitted during the last step, in order
  fired,      \* completions invoked during the last step, in order
  threw,      \* the last step ended by raising an exception
  last,       \* the operation of the last step and its input
  pre,        \* nextId, callbacks, reqs and handshaken before the last step
  handshaken, \* the handshake callback has emitted 'connect' or its 'error'
  built       \* one call of buildPacket and what _receivePacket reads back

vars == <<ws, nextId, callbacks, reqs, sent, events, fired, threw, last, pre,
          handshaken, built>>

-----------------------------------------------------------------------------
(* Program constants *)

PACKET_TYPE_CONNECT == 1
PACKET_TYPE_CONNACK == 2
PACKET_TYPE_PUBLISH == 3
PACKET_TYPE_PUBACK == 4
PACKET_TYPE_PUBREC == 5
PACKET_TYPE_PUBREL == 6
PACKET_TYPE_PUBCOMP == 7
PACKET_TYPE_SUBSCRIBE == 8
PACKET_TYPE_SUBACK == 9
PACKET_TYPE_UNSUBSCRIBE == 10
PACKET_TYPE_UNSUBACK == 11
PACKET_TYPE_PINGREQ == 12
PACKET_TYPE_PINGRESP == 13
PACKET_TYPE_DISCONNECT == 14

MQTT_PROTOCOL_NAME == <<77, 81, 84, 84>>
MQTT_PROTOCOL_LEVEL == 4
CONNECT_FLAG_WILL == 2

\* What reading past the end of a buffer, or a missing argument, yields.
Undefined == -1

\* The packetId handed to _sendPacket when no identifier is allocated.
NoPacketId == -1

\* Width of the identifier field ntob writes: two bytes.
IdModulus == 65536

-----------------------------------------------------------------------------
(* Bounds of the model *)

\* Requests that allocate an identifier (publish with QoS > 0, subscribe,
\* unsubscribe) made on one connection.
MaxReqs == 2

\* Value of the counter in the initial state that stands for a long-lived
\* connection: every identifier below it has been allocated and acknowledged.
WrapStart == 65535

\* Largest packet identifier the broker puts in an inbound packet.
MaxInId == 2

\* Key of the request still unacknowledged in a long-lived connection.
OldKey == 1

-----------------------------------------------------------------------------
(* Primitive codec *)

Min(a, b) == IF a < b THEN a ELSE b

\* data[i] of a JavaScript array or typed array (0-based).
At(data, i) == IF i >= 0 /\ i < Len(data) THEN data[i + 1] ELSE Undefined

\* data.slice(from, to) (0-based, end exclusive, clipped to the buffer).
Slice(data, from, to) ==
  IF Min(to, Len(data)) <= from THEN <<>>
  ELSE SubSeq(data, from + 1, Min(to, Len(data)))

\* x & mask for a mask 2^k - 1; undefined converts to 0.
Low(x, m) == IF x = Undefined THEN 0 ELSE x % m

ntob(number) == <<(number \div 256) % 256, number % 256>>

bton(data) == Low(At(data, 0), 256) * 256 + Low(At(data, 1), 256)

stob(string) == string

stolpb(string) == ntob(Len(string)) \o stob(string)

\* Storing a sequence of numbers into a Uint8Array keeps each modulo 256.
ToBytes(s) == [i \in 1..Len(s) |-> s[i] % 256]

RECURSIVE encodeLen(_)
encodeLen(remainLen) ==
  IF remainLen \div 128 > 0
  THEN <<(remainLen % 128) + 128>> \o encodeLen(remainLen \div 128)
  ELSE <<remainLen % 128>>

\* The buffer is allocated with 4 + remainLen bytes (line 32): a write past
\* its end is dropped and subarray(0, p) is clipped to it.
buildPacket(type, flags, header, payload) ==
  LET remainLen == Len(header) + Len(payload)
      written == <<((type * 16) + (flags % 16)) % 256>>
                   \o encodeLen(remainLen)
                   \o ToBytes(header) \o ToBytes(payload)
  IN Slice(written, 0, 4 + remainLen)

\* The do-while of _receivePacket: returns the decoded length and the cursor.
RECURSIVE decodeLen(_, _, _, _)
decodeLen(data, p, m, acc) ==
  LET byte == At(data, p)
      len == acc + Low(byte, 128) * m
  IN IF byte # Undefined /\ byte >= 128
     THEN decodeLen(data, p + 1, m * 128, len)
     ELSE [remainLen |-> len, p |-> p + 1]

\* Lines 108-120: type, flags and the body slice of one delivery.
parse(data) ==
  LET b0 == Low(At(data, 0), 256)
      d == decodeLen(data, 1, 1, 0)
  IN [type |-> b0 \div 16,
      flags |-> b0 % 16,
      remainLen |-> d.remainLen,
      body |-> Slice(data, d.p, d.p + d.remainLen)]

\* Length of the buffer buildPacket returns: the cursor after the last
\* write, clipped by subarray to the 4 + remainLen bytes allocated.
builtLength(remainLen) ==
  Min(1 + Len(encodeLen(remainLen)) + remainLen, 4 + remainLen)

\* The first bytes of that buffer: the fixed header byte and the length.
builtPrefix(type, flags, remainLen) ==
  Slice(<<((type * 16) + (flags % 16)) % 256>> \o encodeLen(remainLen),
        0, 4 + remainLen)

\* Length of data.slice(p, p + remainLen) on a buffer of `total` bytes.
sliceLength(total, p, remainLen) ==
  IF Min(p + remainLen, total) <= p THEN 0 ELSE Min(p + remainLen, total) - p

-----------------------------------------------------------------------------
(* Values of the model *)

TopicA == <<97>>
TopicB == <<98>>
MessageHi == <<104, 105>>
ClientId == <<99>>

\* A JavaScript argument: a string, a number, an options object, a function
\* or undefined.
Arg(t, v, qos, dup, remain) ==
  [t |-> t, v |-> v, qos |-> qos, dup |-> dup, remain |-> remain]
StrArg(v) == Arg("str", v, 0, FALSE, FALSE)
NumArg(n) == Arg("num", <<>>, n, FALSE, FALSE)
ObjArg(qos, dup, remain) == Arg("obj", <<>>, qos, dup, remain)
FnArg == Arg("fn", <<>>, 0, FALSE, FALSE)
UndefArg == Arg("undef", <<>>, 0, FALSE, FALSE)

\* One element of the topics array of subscribe: a string or {topic, qos}.
TopicItem(obj, topic, qos) == [obj |-> obj, topic |-> topic, qos |-> qos]

\* An emitted event: its name and its arguments.
Event(name, msg, a, b) == [name |-> name, msg |-> msg, a |-> a, b |-> b]

\* A completion that ran: the request it belongs to (0: the handshake's) and
\* the result it passed on.
Fired(r, res) == [req |-> r, res |-> res]

\* No callback argument given to _sendPacket.
NoCallback == -1

HandshakeCb == 0

\* The callback of a request that allocates no identifier (QoS 0 publish).
Transient == -2

Step(op, shape, data, qos, key) ==
  [op |-> op, shape |-> shape, data |-> data, qos |-> qos, key |-> key]

Request(op, qos, key, topics) ==
  [op |-> op, qos |-> qos, key |-> key, topics |-> topics, invoked |-> 0]

-----------------------------------------------------------------------------
(* The callback registry *)

Put(cbs, k, r) ==
  [x \in DOMAIN cbs \cup {k} |-> IF x = k THEN r ELSE cbs[x]]

Remove(cbs, k) == [x \in DOMAIN cbs \ {k} |-> cbs[x]]

\* _sendPacket without the packetId > -1 test: every callback is registered.
sendPacket_alwaysRegister(cbs, packetId, cb) ==
  IF cb = NoCallback THEN [callbacks |-> cbs, call |-> <<>>]
  ELSE [callbacks |-> Put(cbs, packetId, cb), call |-> <<>>]

\* _sendPacket after ws.send: registers the callback under packetId, or runs
\* it at once when there is no packetId.
sendPacket(cbs, packetId, cb) ==
  IF cb = NoCallback THEN [callbacks |-> cbs, call |-> <<>>]
  ELSE IF packetId > -1
       THEN [callbacks |-> Put(cbs, packetId, cb), call |-> <<>>]
       ELSE [callbacks |-> cbs, call |-> <<[cb |-> cb, response |-> <<>>]>>]

\* _handleAck resolving the oldest entry, whatever identifier arrived.
handleAck_oldest(cbs, data) ==
  LET keys == DOMAIN cbs \ {HandshakeCb}
  IN IF keys # {}
     THEN LET k == CHOOSE x \in keys : \A y \in keys : x <= y
          IN [callbacks |-> Remove(cbs, k),
              call |-> <<[cb |-> cbs[k],
                          response |-> Slice(data, 2, Len(data))]>>]
     ELSE [callbacks |-> cbs, call |-> <<>>]

\* _handleAck without the delete of line 164.
handleAck_noDelete(cbs, data) ==
  LET packetId == bton(Slice(data, 0, 2))
  IN IF packetId \in DOMAIN cbs
     THEN [callbacks |-> cbs,
           call |-> <<[cb |-> cbs[packetId],
                       response |-> Slice(data, 2, Len(data))]>>]
     ELSE [callbacks |-> cbs, call |-> <<>>]

\* _handleAck: the callback to run with its response, and the registry after.
handleAck(cbs, data) ==
  LET packetId == bton(Slice(data, 0, 2))
  IN IF packetId \in DOMAIN cbs
     THEN [callbacks |-> Remove(cbs, packetId),
           call |-> <<[cb |-> cbs[packetId],
                       response |-> Slice(data, 2, Len(data))]>>]
     ELSE [callbacks |-> cbs, call |-> <<>>]

-----------------------------------------------------------------------------
(* Completions *)

errMessage(returnCode) ==
  CASE returnCode = 1 -> "Unsupported protocol level"
    [] returnCode = 2 -> "Invalid client identifier"
    [] returnCode = 3 -> "Service unavailable"
    [] returnCode = 4 -> "Malformed username or password"
    [] returnCode = 5 -> "Client not authorized"
    [] OTHER -> "Connection failed"

\* The callback _connect registers; err is null at both of its call sites.
connectCallback(flags, returnCode) ==
  IF returnCode = 0
  THEN <<Event("connect", "", flags, <<>>)>>
  ELSE <<Event("error", errMessage(returnCode), <<>>, <<>>)>>

\* The subscribe completion with each return code reduced to a QoS (& 0x03).
completionResult_masked(rq, response) ==
  IF rq.op = "subscribe"
  THEN [i \in 1..Len(rq.topics) |->
          [topic |-> rq.topics[i], qos |-> Low(At(response, i - 1), 4)]]
  ELSE <<>>

\* What the callback of a request passes to the caller's callback.
completionResult(rq, response) ==
  IF rq.op = "subscribe"
  THEN [i \in 1..Len(rq.topics) |->
          [topic |-> rq.topics[i], qos |-> At(response, i - 1)]]
  ELSE <<>>

\* The effects of one step on the registry, the requests and the outside.
Eff(cbs, rq, snt, evs, frd, thr) ==
  [callbacks |-> cbs, reqs |-> rq, sent |-> snt, events |-> evs,
   fired |-> frd, threw |-> thr]

\* Runs the callbacks in `call` (none or one) with the response given.
runCall(cbs, rq, call) ==
  IF call = <<>> THEN Eff(cbs, rq, <<>>, <<>>, <<>>, FALSE)
  ELSE LET c == call[1]
       IN IF c.cb = HandshakeCb
          THEN Eff(cbs, rq, <<>>, connectCallback(c.response, Undefined),
                   <<Fired(HandshakeCb, <<>>)>>, FALSE)
          ELSE IF c.cb = Transient
               THEN Eff(cbs, rq, <<>>, <<>>, <<Fired(Transient, <<>>)>>, FALSE)
               ELSE Eff(cbs, [rq EXCEPT ![c.cb].invoked = @ + 1], <<>>, <<>>,
                        <<Fired(c.cb,
                                completionResult(rq[c.cb], c.response))>>,
                        FALSE)

-----------------------------------------------------------------------------
(* _receivePacket *)

onConnack(cbs, rq, data) ==
  IF HandshakeCb \notin DOMAIN cbs
  THEN Eff(cbs, rq, <<>>, <<>>, <<>>, TRUE)
  ELSE Eff(cbs, rq, <<>>, connectCallback(<<At(data, 0)>>, At(data, 1)),
           <<Fired(cbs[HandshakeCb], <<>>)>>, FALSE)

onPublish(cbs, rq, flags, remainLen, data) ==
  LET qos == (flags \div 2) % 4
      n == bton(data)
      topic == Slice(data, 2, 2 + n)
      p == IF qos > 0 THEN 2 + n + 2 ELSE 2 + n
      packetId == IF qos > 0 THEN bton(Slice(data, 2 + n, 2 + n + 2))
                  ELSE NoPacketId
      payload == Slice(data, p, remainLen)
      acks == IF qos = 1
              THEN <<buildPacket(PACKET_TYPE_PUBACK, 0, ntob(packetId), <<>>)>>
              ELSE IF qos = 2
                   THEN <<buildPacket(PACKET_TYPE_PUBREC, 0, data, <<>>)>>
                   ELSE <<>>
  IN Eff(cbs, rq, acks, <<Event("message", "", topic, payload)>>, <<>>, FALSE)

onAck(cbs, rq, data) ==
  LET h == handleAck(cbs, data)
  IN runCall(h.callbacks, rq, h.call)

\* PUBREC handled as the final acknowledgment as well.
onPubrec_resolves(cbs, rq, data) ==
  [onAck(cbs, rq, data) EXCEPT
     !.sent = <<buildPacket(PACKET_TYPE_PUBREL, 0, data, <<>>)>>]

onPubrec(cbs, rq, data) ==
  Eff(cbs, rq, <<buildPacket(PACKET_TYPE_PUBREL, 0, data, <<>>)>>,
      <<>>, <<>>, FALSE)

receivePacket(cbs, rq, buffer) ==
  LET pk == parse(buffer)
  IN CASE pk.type = PACKET_TYPE_CONNACK -> onConnack(cbs, rq, pk.body)
       [] pk.type = PACKET_TYPE_PUBLISH ->
            onPublish(cbs, rq, pk.flags, pk.remainLen, pk.body)
       [] pk.type \in {PACKET_TYPE_PUBACK, PACKET_TYPE_PUBCOMP,
                       PACKET_TYPE_SUBACK, PACKET_TYPE_UNSUBACK} ->
            onAck(cbs, rq, pk.body)
       [] pk.type = PACKET_TYPE_PUBREC -> onPubrec(cbs, rq, pk.body)
       [] OTHER -> Eff(cbs, rq, <<>>, <<>>, <<>>, FALSE)

-----------------------------------------------------------------------------
(* Outbound operations *)

\* The result of a public operation: its effects and the counter after it.
Out(eff, nid) == [eff |-> eff, nextId |-> nid]

connect(cbs, rq, clean, keepAlive) ==
  LET header == stolpb(MQTT_PROTOCOL_NAME)
                  \o <<MQTT_PROTOCOL_LEVEL,
                       (IF clean THEN 1 ELSE 0) + CONNECT_FLAG_WILL>>
                  \o ntob(keepAlive)
      payload == stolpb(ClientId)
      packet == buildPacket(PACKET_TYPE_CONNECT, 0, header, payload)
      sp == sendPacket(cbs, 0, HandshakeCb)
  IN Eff(sp.callbacks, rq, <<packet>>, <<>>, <<>>, FALSE)

publish(cbs, rq, nid, topic, message, options) ==
  LET opts == IF message.t # "str" THEN message ELSE options
      msg == IF message.t = "str" THEN message.v ELSE <<>>
      given == opts.t \in {"num", "obj"}
      dup == IF opts.t = "obj" /\ opts.dup THEN 1 ELSE 0
      qos == IF given THEN opts.qos ELSE 0
      remain == IF opts.t = "obj" /\ opts.remain THEN 1 ELSE 0
      flags == 8 * dup + 2 * (qos % 4) + remain
      packetId == IF qos > 0 THEN nid ELSE NoPacketId
      header == stolpb(topic)
                  \o (IF packetId > -1 THEN ntob(packetId) ELSE <<>>)
      packet == buildPacket(PACKET_TYPE_PUBLISH, flags, header, stob(msg))
      rq2 == IF packetId > -1
             THEN Append(rq, Request("publish", qos, packetId, <<>>))
             ELSE rq
      sp == sendPacket(cbs, packetId,
                       IF packetId > -1 THEN Len(rq) + 1 ELSE Transient)
      run == runCall(sp.callbacks, rq2, sp.call)
  IN IF opts.t \notin {"fn", "num", "obj"}
     THEN Out(Eff(cbs, rq, <<>>, <<>>, <<>>, TRUE), nid)
     ELSE Out([run EXCEPT !.sent = <<packet>>],
              IF qos > 0 THEN nid + 1 ELSE nid)

RECURSIVE subscribePayload(_, _)
subscribePayload(topics, flags) ==
  IF topics = <<>> THEN <<>>
  ELSE LET topic == Head(topics)
       IN (IF topic.obj
           THEN stolpb(topic.topic) \o <<topic.qos % 4>>
           ELSE stolpb(topic.topic) \o <<flags>>)
          \o subscribePayload(Tail(topics), flags)

subscribe(cbs, rq, nid, topics, qosArg) ==
  LET qos == IF qosArg.t = "num" THEN qosArg.qos ELSE 0
      flags == qos % 4
      packetId == nid
      payload == subscribePayload(topics, flags)
      packet == buildPacket(PACKET_TYPE_SUBSCRIBE, 2, ntob(packetId), payload)
      rq2 == Append(rq, Request("subscribe", 0, packetId, topics))
      sp == sendPacket(cbs, packetId, Len(rq) + 1)
      run == runCall(sp.callbacks, rq2, sp.call)
  IN Out([run EXCEPT !.sent = <<packet>>], nid + 1)

RECURSIVE unsubscribePayload(_)
unsubscribePayload(topics) ==
  IF topics = <<>> THEN <<>>
  ELSE stolpb(Head(topics).topic) \o unsubscribePayload(Tail(topics))

unsubscribe(cbs, rq, nid, topics) ==
  LET packetId == nid
      payload == unsubscribePayload(topics)
      packet ==
        buildPacket(PACKET_TYPE_UNSUBSCRIBE, 2, ntob(packetId), payload)
      rq2 == Append(rq, Request("unsubscribe", 0, packetId, topics))
      sp == sendPacket(cbs, packetId, Len(rq) + 1)
      run == runCall(sp.callbacks, rq2, sp.call)
  IN Out([run EXCEPT !.sent = <<packet>>], nid + 1)

ping(cbs, rq) ==
  Eff(sendPacket(cbs, Undefined, NoCallback).callbacks, rq,
      <<buildPacket(PACKET_TYPE_PINGREQ, 0, <<>>, <<>>)>>, <<>>, <<>>, FALSE)

disconnect(cbs, rq) ==
  Eff(sendPacket(cbs, Undefined, NoCallback).callbacks, rq,
      <<buildPacket(PACKET_TYPE_DISCONNECT, 0, <<>>, <<>>)>>, <<>>, <<>>, FALSE)

-----------------------------------------------------------------------------
(* Inputs *)

QoS == 0..2

\* The argument lists of publish after the topic: message, options, callback.
PublishCalls ==
  {[shape |-> "full", message |-> StrArg(MessageHi),
    options |-> ObjArg(q, q = 1, q = 1), callback |-> FnArg] : q \in QoS}
  \cup {[shape |-> "num", message |-> StrArg(MessageHi),
         options |-> NumArg(q), callback |-> FnArg] : q \in {1}}
  \cup {[shape |-> "noMessage", message |-> ObjArg(q, FALSE, FALSE),
         options |-> FnArg, callback |-> UndefArg] : q \in {2}}
  \cup {[shape |-> "topic", message |-> UndefArg,
         options |-> UndefArg, callback |-> UndefArg],
        [shape |-> "topicMessage", message |-> StrArg(MessageHi),
         options |-> UndefArg, callback |-> UndefArg],
        [shape |-> "topicCallback", message |-> FnArg,
         options |-> UndefArg, callback |-> UndefArg],
        [shape |-> "topicMessageCallback", message |-> StrArg(MessageHi),
         options |-> FnArg, callback |-> UndefArg]}

\* The topics argument of subscribe and unsubscribe, a lone string already
\* wrapped into a list (lines 249-251, 281-283).
TopicLists ==
  {<<TopicItem(FALSE, TopicA, 0), TopicItem(TRUE, TopicB, 1)>>}


AckTypes ==
  {PACKET_TYPE_PUBACK, PACKET_TYPE_PUBCOMP, PACKET_TYPE_SUBACK,
   PACKET_TYPE_UNSUBACK}

InIds == 0..MaxInId

\* The bytes after the identifier in an acknowledgment of type t.
AckRest(t) ==
  IF t = PACKET_TYPE_SUBACK THEN {<<1, 128>>} ELSE {<<>>}

\* One delivery that holds two acknowledgments back to back.
TwoPackets ==
  {buildPacket(PACKET_TYPE_PUBACK, 0, ntob(i), <<>>)
     \o buildPacket(PACKET_TYPE_PUBACK, 0, ntob(j), <<>>) :
       i \in {1}, j \in {2}}

\* Deliveries that end before the remaining length they declare: a SUBACK
\* without its last return code, a QoS 1 PUBLISH without its payload.
Truncated ==
  {Slice(buildPacket(PACKET_TYPE_SUBACK, 0, ntob(1) \o <<1, 128>>, <<>>),
         0, 5),
   Slice(buildPacket(PACKET_TYPE_PUBLISH, 2, stolpb(TopicA) \o ntob(2),
                     MessageHi), 0, 7)}

\* The buffers the transport delivers.
InBuffers ==
  TwoPackets \cup Truncated \cup
  {buildPacket(PACKET_TYPE_CONNACK, 0, <<IF rc = 0 THEN 1 ELSE 0, rc>>,
               <<>>) : rc \in 0..6}
  \cup UNION {{buildPacket(t, 0, ntob(id) \o rest, <<>>) :
                 id \in InIds, rest \in AckRest(t)} : t \in AckTypes}
  \cup {buildPacket(PACKET_TYPE_PUBREC, 0, ntob(id), <<>>) : id \in InIds}
  \cup {buildPacket(PACKET_TYPE_PINGRESP, 0, <<>>, <<>>)}
  \cup {buildPacket(PACKET_TYPE_PUBLISH, 2 * q,
                    stolpb(TopicA) \o (IF q > 0 THEN ntob(2) ELSE <<>>),
                    MessageHi) : q \in QoS}

-----------------------------------------------------------------------------
(* The state machine *)

\* The public operations are called while the socket is open: ws.send raises
\* on a socket that is still connecting, and a closed socket delivers no
\* further message.

\* The events the callback of _connect emits (lines 200-206).
HandshakeOutcome(e) ==
  e.name = "connect" \/ (e.name = "error" /\ e.msg # "transport")

Effects(eff) ==
  /\ UNCHANGED built
  /\ callbacks' = eff.callbacks
  /\ reqs' = eff.reqs
  /\ sent' = eff.sent
  /\ events' = eff.events
  /\ fired' = eff.fired
  /\ threw' = eff.threw
  /\ handshaken' = (handshaken
                      \/ \E i \in DOMAIN eff.events :
                           HandshakeOutcome(eff.events[i]))
  /\ pre' = [nextId |-> nextId, callbacks |-> callbacks, reqs |-> reqs,
              handshaken |-> handshaken]

\* No call of buildPacket is followed on its own.
NotBuilt ==
  [done |-> FALSE, type |-> 0, flags |-> 0, n |-> 0, length |-> 0,
   lengthBytes |-> 0, remainLen |-> 0, p |-> 0, bodyLength |-> 0,
   bytes |-> FALSE, same |-> FALSE]

\* After the constructor; or a connection in use for so long that the
\* counter has reached WrapStart with every earlier request acknowledged; or
\* one where the counter has come round to the identifier of a QoS 1 publish
\* that is still unacknowledged under OldKey.
Init ==
  /\ built = NotBuilt
  /\ sent = <<>>
  /\ events = <<>>
  /\ fired = <<>>
  /\ threw = FALSE
  /\ last = Step("new", "", <<>>, 0, NoPacketId)
  /\ \/ /\ ws = "connecting"
        /\ nextId = 1
        /\ callbacks = <<>>
        /\ reqs = <<>>
        /\ handshaken = FALSE
     \/ /\ ws = "open"
        /\ nextId = WrapStart
        /\ callbacks = (HandshakeCb :> HandshakeCb)
        /\ reqs = <<>>
        /\ handshaken = TRUE
     \/ /\ ws = "open"
        /\ nextId = IdModulus + OldKey
        /\ callbacks = (HandshakeCb :> HandshakeCb) @@ (OldKey :> 1)
        /\ reqs = <<Request("publish", 1, OldKey, <<>>)>>
        /\ handshaken = TRUE
  /\ pre = [nextId |-> nextId, callbacks |-> callbacks, reqs |-> reqs,
            handshaken |-> handshaken]

\* ws.onopen
Open ==
  /\ ws = "connecting"
  /\ ws' = "open"
  /\ \E clean \in BOOLEAN, keepAlive \in {1, 60} :
       Effects(connect(callbacks, reqs, clean, keepAlive))
  /\ last' = Step("open", "", <<>>, 0, 0)
  /\ UNCHANGED nextId

\* ws.onclose
Close ==
  /\ ws # "closed"
  /\ ws' = "closed"
  /\ Effects(Eff(callbacks, reqs, <<>>,
                 <<Event("close", "", <<>>, <<>>)>>, <<>>, FALSE))
  /\ last' = Step("close", "", <<>>, 0, NoPacketId)
  /\ UNCHANGED nextId

\* ws.onerror
TransportError ==
  /\ ws # "closed"
  /\ Effects(Eff(callbacks, reqs, <<>>,
                 <<Event("error", "transport", <<>>, <<>>)>>, <<>>, FALSE))
  /\ last' = Step("wserror", "", <<>>, 0, NoPacketId)
  /\ UNCHANGED <<ws, nextId>>

\* ws.onmessage
Receive ==
  /\ ws = "open"
  /\ \E data \in InBuffers :
       /\ Effects(receivePacket(callbacks, reqs, data))
       /\ last' = Step("receive", "", data, 0, NoPacketId)
  /\ UNCHANGED <<ws, nextId>>

Publish ==
  /\ ws = "open"
  /\ \E c \in PublishCalls :
       LET out == publish(callbacks, reqs, nextId, TopicA, c.message, c.options)
       IN /\ Len(out.eff.reqs) <= MaxReqs
          /\ Effects(out.eff)
          /\ nextId' = out.nextId
          /\ last' = Step("publish", c.shape, <<>>,
                          IF out.eff.reqs = reqs THEN 0
                          ELSE out.eff.reqs[Len(reqs) + 1].qos,
                          IF out.eff.reqs = reqs THEN NoPacketId
                          ELSE out.eff.reqs[Len(reqs) + 1].key)
  /\ UNCHANGED ws

Subscribe ==
  /\ ws = "open"
  /\ Len(reqs) < MaxReqs
  /\ \E topics \in TopicLists, qosArg \in {NumArg(1), FnArg} :
       LET out == subscribe(callbacks, reqs, nextId, topics, qosArg)
       IN /\ Effects(out.eff)
          /\ nextId' = out.nextId
          /\ last' = Step("subscribe", qosArg.t, <<>>, 0, nextId)
  /\ UNCHANGED ws

Unsubscribe ==
  /\ ws = "open"
  /\ Len(reqs) < MaxReqs
  /\ \E topics \in TopicLists :
       LET out == unsubscribe(callbacks, reqs, nextId, topics)
       IN /\ Effects(out.eff)
          /\ nextId' = out.nextId
          /\ last' = Step("unsubscribe", "", <<>>, 0, nextId)
  /\ UNCHANGED ws

Ping ==
  /\ ws = "open"
  /\ Effects(ping(callbacks, reqs))
  /\ last' = Step("ping", "", <<>>, 0, NoPacketId)
  /\ UNCHANGED <<ws, nextId>>

Disconnect ==
  /\ ws = "open"
  /\ Effects(disconnect(callbacks, reqs))
  /\ last' = Step("disconnect", "", <<>>, 0, NoPacketId)
  /\ UNCHANGED <<ws, nextId>>

Next ==
  \/ Open
  \/ Close
  \/ TransportError
  \/ Receive
  \/ Publish
  \/ Subscribe
  \/ Unsubscribe
  \/ Ping
  \/ Disconnect

Spec == Init /\ [][Next]_vars

-----------------------------------------------------------------------------
(* subscribe and the SUBACK that answers it, over more lists and bodies *)

\* Subscribe requests made on one connection.
MaxSubs == 1

\* Topics in one subscribe call.
MaxTopics == 2

\* The elements of a topics argument: a string, a {topic, qos} object.
TopicItems == {TopicItem(FALSE, TopicA, 0), TopicItem(TRUE, TopicB, 1)}

\* The return codes of a SUBACK: a granted QoS, failure.
ReturnCodes == {2, 128}

SeqsUpTo(S, n) == UNION {[1..k -> S] : k \in 1..n}

\* An open connection whose CONNACK has been accepted.
InitSubscribe ==
  /\ ws = "open"
  /\ nextId = 1
  /\ callbacks = (HandshakeCb :> HandshakeCb)
  /\ reqs = <<>>
  /\ sent = <<>>
  /\ events = <<>>
  /\ fired = <<>>
  /\ threw = FALSE
  /\ handshaken = TRUE
  /\ built = NotBuilt
  /\ last = Step("new", "", <<>>, 0, NoPacketId)
  /\ pre = [nextId |-> nextId, callbacks |-> callbacks, reqs |-> reqs,
            handshaken |-> handshaken]

SubscribeTopics ==
  /\ Len(reqs) < MaxSubs
  /\ \E topics \in SeqsUpTo(TopicItems, MaxTopics),
        qosArg \in {NumArg(1), FnArg} :
       LET out == subscribe(callbacks, reqs, nextId, topics, qosArg)
       IN /\ Effects(out.eff)
          /\ nextId' = out.nextId
          /\ last' = Step("subscribe", qosArg.t, <<>>, 0, nextId)
  /\ UNCHANGED ws

ReceiveSuback ==
  /\ \E id \in InIds \ {0}, codes \in SeqsUpTo(ReturnCodes, MaxTopics) :
       LET data == buildPacket(PACKET_TYPE_SUBACK, 0, ntob(id) \o codes, <<>>)
       IN /\ Effects(receivePacket(callbacks, reqs, data))
          /\ last' = Step("receive", "", data, 0, NoPacketId)
  /\ UNCHANGED <<ws, nextId>>

NextSubscribe == SubscribeTopics \/ ReceiveSuback

SpecSubscribe == InitSubscribe /\ [][NextSubscribe]_vars

-----------------------------------------------------------------------------
(* buildPacket followed by the header parsing of _receivePacket *)

\* Bodies up to this length are built and parsed byte by byte; for longer
\* ones the lengths and the first bytes of the buffer are computed.
MaxByteLevel == 16384

\* The remaining lengths around each change of the length field's size.
CodecLengths ==
  {0, 1, 2, 127, 128, 16383, 16384, 2097151, 2097152, 268435455}

CodecFlags == {0, 2, 13}

\* A header of two bytes and a payload that make n bytes together.
CodecHeader(n) == IF n >= 2 THEN ntob(n) ELSE <<>>

CodecPayload(n) ==
  [i \in 1..(n - Len(CodecHeader(n))) |-> (i * 7) % 256]

\* buildPacket(type, flags, header, payload) with n bytes of header and
\* payload, then lines 108-120 on the buffer it returned.
BuildAndParse(type, flags, n) ==
  IF n <= MaxByteLevel
  THEN LET buffer == buildPacket(type, flags, CodecHeader(n), CodecPayload(n))
           d == decodeLen(buffer, 1, 1, 0)
           pk == parse(buffer)
       IN [done |-> TRUE, type |-> type, flags |-> flags, n |-> n,
           length |-> Len(buffer), lengthBytes |-> d.p - 1,
           remainLen |-> pk.remainLen, p |-> d.p,
           bodyLength |-> Len(pk.body), bytes |-> TRUE,
           same |-> /\ pk.type = type
                    /\ pk.flags = flags
                    /\ pk.body = CodecHeader(n) \o CodecPayload(n)]
  ELSE LET d == decodeLen(builtPrefix(type, flags, n), 1, 1, 0)
           pk == parse(builtPrefix(type, flags, n))
       IN [done |-> TRUE, type |-> type, flags |-> flags, n |-> n,
           length |-> builtLength(n), lengthBytes |-> d.p - 1,
           remainLen |-> d.remainLen, p |-> d.p,
           bodyLength |-> sliceLength(builtLength(n), d.p, d.remainLen),
           bytes |-> FALSE,
           same |-> pk.type = type /\ pk.flags = flags]

InitCodec ==
  /\ ws = "connecting"
  /\ nextId = 1
  /\ callbacks = <<>>
  /\ reqs = <<>>
  /\ sent = <<>>
  /\ events = <<>>
  /\ fired = <<>>
  /\ threw = FALSE
  /\ handshaken = FALSE
  /\ last = Step("new", "", <<>>, 0, NoPacketId)
  /\ pre = [nextId |-> nextId, callbacks |-> callbacks, reqs |-> reqs,
            handshaken |-> handshaken]
  /\ \E type \in PACKET_TYPE_CONNECT..PACKET_TYPE_DISCONNECT,
        flags \in CodecFlags, n \in CodecLengths :
       built = [NotBuilt EXCEPT !.type = type, !.flags = flags, !.n = n]

Build ==
  /\ ~built.done
  /\ built' = BuildAndParse(built.type, built.flags, built.n)
  /\ UNCHANGED <<ws, nextId, callbacks, reqs, sent, events, fired, threw,
                 last, pre, handshaken>>

NextCodec == Build

SpecCodec == InitCodec /\ [][NextCodec]_vars

-----------------------------------------------------------------------------
(* Vocabulary of the properties *)

\* The delivery of the last step, parsed, and its packet identifier field.
LastPk == parse(last.data)
LastId == bton(Slice(LastPk.body, 0, 2))

\* The identifier field a request's packet carries: the two bytes of ntob.
WireId(key) == bton(ntob(key))

\* Requests that registered a completion.
Tracked == DOMAIN reqs

\* Requests currently awaiting their acknowledgment.
Awaiting == {r \in Tracked : reqs[r].invoked = 0}

Registered(r) ==
  reqs[r].key \in DOMAIN callbacks /\ callbacks[reqs[r].key] = r

\* Completions of requests (not the handshake's) that ran in the last step.
FiredReqs == {fired[i].req : i \in DOMAIN fired} \cap DOMAIN reqs

\* The identifier field of the request packet sent by the last step.
SentId ==
  LET body == parse(sent[1]).body
  IN IF last.op = "publish"
     THEN bton(Slice(body, 2 + bton(body), 2 + bton(body) + 2))
     ELSE bton(body)

-----------------------------------------------------------------------------
(* C1..C10 *)

\* C1: the completion of a QoS 1 publish with identifier k runs only in a
\* step that delivers a PUBACK carrying k (no other packet type carrying k
\* and no PUBACK with another identifier runs it), and until it has run its
\* entry stays registered.
C1_PendingUntilPuback ==
  /\ \A r \in FiredReqs :
       (reqs[r].op = "publish" /\ reqs[r].qos = 1) =>
         /\ last.op = "receive"
         /\ LastPk.type = PACKET_TYPE_PUBACK
         /\ LastId = WireId(reqs[r].key)
  /\ \A r \in Awaiting :
       (reqs[r].op = "publish" /\ reqs[r].qos = 1) => Registered(r)

\* C2: the completion of a QoS 2 publish with identifier k runs only in a
\* step that delivers a PUBCOMP carrying k: not on PUBREC(k), and not on any
\* PUBACK, SUBACK or UNSUBACK.
C2_ResolvedByPubcompOnly ==
  \A r \in FiredReqs :
    (reqs[r].op = "publish" /\ reqs[r].qos = 2) =>
      /\ last.op = "receive"
      /\ LastPk.type = PACKET_TYPE_PUBCOMP
      /\ LastId = WireId(reqs[r].key)

\* C3: once the transport has closed, no request that registered a
\* completion is left with its completion not invoked.
C3_CloseFailsPending ==
  ws = "closed" => Awaiting = {}

\* C4: a QoS 0 publish runs its completion exactly once within the call,
\* with no delivery from the transport, allocates no identifier (the counter
\* is unchanged) and adds no entry to the registry, so that no later step can
\* run the completion again.
C4_Qos0Immediate ==
  (last.op = "publish" /\ ~threw /\ last.qos = 0) =>
    /\ fired = <<Fired(Transient, <<>>)>>
    /\ nextId = pre.nextId
    /\ callbacks = pre.callbacks
    /\ reqs = pre.reqs
    /\ Len(sent) = 1
    /\ parse(sent[1]).type = PACKET_TYPE_PUBLISH
    /\ (parse(sent[1]).flags \div 2) % 4 = 0

\* A QoS 0 publish made while another request is waiting.
C4_Witness ==
  /\ last.op = "publish" /\ last.qos = 0 /\ ~threw
  /\ fired = <<Fired(Transient, <<>>)>>
  /\ Awaiting # {}

\* C5: an acknowledgment runs exactly the completion registered under the
\* identifier it carries, whatever the order of arrival, and leaves every
\* other entry registered and every other request as it was.
C5_MatchedByIdentifier ==
  (last.op = "receive" /\ LastPk.type \in AckTypes) =>
    IF LastId \in DOMAIN pre.callbacks
    THEN /\ Len(fired) = 1
         /\ fired[1].req = pre.callbacks[LastId]
         /\ DOMAIN callbacks = DOMAIN pre.callbacks \ {LastId}
         /\ \A k \in DOMAIN callbacks : callbacks[k] = pre.callbacks[k]
         /\ DOMAIN reqs = DOMAIN pre.reqs
         /\ \A r \in DOMAIN reqs :
              r # pre.callbacks[LastId] => reqs[r] = pre.reqs[r]
    ELSE fired = <<>>

\* Two requests were waiting and the acknowledgment of the later one came
\* first.
C5_Witness ==
  /\ last.op = "receive" /\ LastPk.type \in AckTypes
  /\ Len(reqs) >= 2
  /\ FiredReqs = {2}
  /\ reqs[2].key = LastId
  /\ 1 \in Awaiting /\ Registered(1)

C7_WireIdsDistinct ==
  \A r1, r2 \in Awaiting :
    r1 # r2 => WireId(reqs[r1].key) # WireId(reqs[r2].key)

\* C8: the counter never goes below 1 and no PUBLISH with QoS > 0, SUBSCRIBE
\* or UNSUBSCRIBE packet carries 0 in its identifier field.
C8_ZeroNeverAllocated ==
  /\ nextId >= 1
  /\ (last.op \in {"publish", "subscribe", "unsubscribe"}
        /\ last.key # NoPacketId) => SentId # 0

\* C9: a CONNACK with return code 0 emits 'connect' with the flags of body
\* byte 0 and nothing else; one with another return code emits 'error' with
\* the reason of that code and nothing else.
C9_Reason(rc) ==
  CASE rc = 1 -> "Unsupported protocol level"
    [] rc = 2 -> "Invalid client identifier"
    [] rc = 3 -> "Service unavailable"
    [] rc = 4 -> "Malformed username or password"
    [] rc = 5 -> "Client not authorized"
    [] OTHER -> "Connection failed"

C9_ConnackOutcome ==
  (last.op = "receive" /\ LastPk.type = PACKET_TYPE_CONNACK) =>
    IF At(LastPk.body, 1) = 0
    THEN events = <<Event("connect", "", <<At(LastPk.body, 0)>>, <<>>)>>
    ELSE events =
           <<Event("error", C9_Reason(At(LastPk.body, 1)), <<>>, <<>>)>>

\* C10: a PUBREC carrying k makes the client send one PUBREL carrying k, and
\* runs and removes no completion.
C10_PubrecSendsPubrel ==
  (last.op = "receive" /\ LastPk.type = PACKET_TYPE_PUBREC) =>
    /\ Len(sent) = 1
    /\ parse(sent[1]).type = PACKET_TYPE_PUBREL
    /\ parse(sent[1]).body = ntob(LastId)
    /\ fired = <<>>
    /\ callbacks = pre.callbacks
    /\ reqs = pre.reqs

\* The PUBREC of a QoS 2 publish that is waiting has been answered.
C10_Witness ==
  /\ last.op = "receive" /\ LastPk.type = PACKET_TYPE_PUBREC
  /\ Len(sent) = 1
  /\ \E r \in Awaiting :
       /\ reqs[r].op = "publish" /\ reqs[r].qos = 2
       /\ reqs[r].key = LastId
       /\ Registered(r)

\* C11: an inbound PUBLISH emits one 'message' event with its topic and
\* payload; with QoS 0 nothing is sent, with QoS 1 one PUBACK and with QoS 2
\* one PUBREC, whose body is exactly the two identifier bytes of the PUBLISH.
C11_InboundPublish ==
  (last.op = "receive" /\ LastPk.type = PACKET_TYPE_PUBLISH
     /\ Len(LastPk.body) = LastPk.remainLen) =>
    LET body == LastPk.body
        qos == (LastPk.flags \div 2) % 4
        n == bton(body)
        idBytes == Slice(body, 2 + n, 2 + n + 2)
        payload == Slice(body, IF qos > 0 THEN 2 + n + 2 ELSE 2 + n, Len(body))
    IN /\ events = <<Event("message", "", Slice(body, 2, 2 + n), payload)>>
       /\ qos = 0 => sent = <<>>
       /\ qos \in {1, 2} =>
            /\ Len(sent) = 1
            /\ parse(sent[1]).type =
                 (IF qos = 1 THEN PACKET_TYPE_PUBACK ELSE PACKET_TYPE_PUBREC)
            /\ parse(sent[1]).body = idBytes

\* An identifier had a pending entry before the last step: a request
\* registered under it, or for 0 the handshake before its outcome.
PendingBefore(id) ==
  IF id = 0
  THEN HandshakeCb \in DOMAIN pre.callbacks /\ ~pre.handshaken
  ELSE id \in DOMAIN pre.callbacks

\* C12: an acknowledgment whose identifier has no pending entry runs no
\* completion, emits no event, sends no packet, raises nothing and leaves
\* the registry, the requests and the counter as they were.
C12_OrphanAckDropped ==
  (last.op = "receive" /\ LastPk.type \in AckTypes
     /\ ~PendingBefore(LastId)) =>
    /\ fired = <<>>
    /\ events = <<>>
    /\ sent = <<>>
    /\ ~threw
    /\ callbacks = pre.callbacks
    /\ reqs = pre.reqs
    /\ nextId = pre.nextId

\* C16: publish called without options (publish(topic), publish(topic,
\* message), publish(topic, callback), publish(topic, message, callback))
\* raises nothing, sends one QoS 0 PUBLISH with flags 0 and allocates no
\* identifier.
C16_DefaultOptions ==
  (last.op = "publish"
     /\ last.shape \in {"topic", "topicMessage", "topicCallback",
                        "topicMessageCallback"}) =>
    /\ ~threw
    /\ Len(sent) = 1
    /\ parse(sent[1]).type = PACKET_TYPE_PUBLISH
    /\ parse(sent[1]).flags = 0
    /\ nextId = pre.nextId

\* C18: a PUBACK, PUBCOMP, SUBACK or UNSUBACK that carries identifier 0
\* neither invokes nor removes the completion of the handshake and emits no
\* 'connect' or 'error' event.
C18_ZeroAckSparesHandshake ==
  (last.op = "receive" /\ LastPk.type \in AckTypes /\ LastId = 0) =>
    /\ fired = <<>>
    /\ events = <<>>
    /\ (HandshakeCb \in DOMAIN pre.callbacks => HandshakeCb \in DOMAIN callbacks)

\* C20: handling an inbound packet never raises an exception.
C20_ReceiveNeverThrows ==
  last.op = "receive" => ~threw

\* The request a key of the registry before the last step stands for.
PreRequest(key) == pre.reqs[pre.callbacks[key]]

\* The last step delivered a whole SUBACK that answers a pending subscribe
\* with one return code per requested topic.
SubackAnswersSubscribe ==
  /\ last.op = "receive" /\ LastPk.type = PACKET_TYPE_SUBACK
  /\ Len(LastPk.body) = LastPk.remainLen
  /\ LastId \in DOMAIN pre.callbacks
  /\ pre.callbacks[LastId] \in DOMAIN pre.reqs
  /\ PreRequest(LastId).op = "subscribe"
  /\ Len(LastPk.body) - 2 = Len(PreRequest(LastId).topics)

Rest(data) ==
  LET d == decodeLen(data, 1, 1, 0)
  IN Slice(data, d.p + d.remainLen, Len(data))

\* C14: when one delivery holds two whole acknowledgments for two pending
\* identifiers, both are processed: both completions are invoked and both
\* entries leave the registry.
C14_BothPacketsProcessed ==
  (last.op = "receive" /\ Rest(last.data) # <<>>
     /\ LastPk.type \in AckTypes
     /\ parse(Rest(last.data)).type \in AckTypes
     /\ {LastId, bton(parse(Rest(last.data)).body)}
          \subseteq DOMAIN pre.callbacks \ {0}) =>
    /\ {f.req : f \in {fired[i] : i \in DOMAIN fired}}
         = {pre.callbacks[LastId],
            pre.callbacks[bton(parse(Rest(last.data)).body)]}
    /\ LastId \notin DOMAIN callbacks
    /\ bton(parse(Rest(last.data)).body) \notin DOMAIN callbacks

\* C17: a delivery with fewer body bytes than its remaining length declares
\* is not dispatched: no completion runs, no event is emitted, no packet is
\* sent and the registry is left alone.
C17_TruncatedRejected ==
  (last.op = "receive" /\ Len(LastPk.body) < LastPk.remainLen) =>
    /\ fired = <<>>
    /\ events = <<>>
    /\ sent = <<>>
    /\ callbacks = pre.callbacks

\* C19: the handshake completion is single-shot: once 'connect' or the
\* handshake 'error' has been emitted on a connection, no inbound packet
\* makes the client emit either of them again.
C19_HandshakeSingleShot ==
  (last.op = "receive" /\ pre.handshaken) =>
    \A i \in DOMAIN events : ~HandshakeOutcome(events[i])

\* Bytes the remaining-length field needs for n.
VarintLen(n) ==
  IF n < 128 THEN 1 ELSE IF n < 16384 THEN 2 ELSE IF n < 2097152 THEN 3 ELSE 4

\* C15: for every remaining length n up to 2^28 - 1, buildPacket returns
\* 1 + VarintLen(n) + n bytes with the shortest length field, and parsing the
\* buffer gives back remaining length n, the type, the flags and a body of n
\* bytes equal to header followed by payload.
C15_BuildParseRoundTrip ==
  built.done =>
    /\ built.length = 1 + VarintLen(built.n) + built.n
    /\ built.lengthBytes = VarintLen(built.n)
    /\ built.remainLen = built.n
    /\ built.bodyLength = built.n
    /\ built.same

=============================================================================
